---------------------------- MODULE Spec2Model ----------------------------
(***************************************************************************)
(* Yareusnap food-detection API: the detection-to-advice pipeline.         *)
(*                                                                         *)
(*   app/yolo_detector.py    detect_food_optimized, empty_result           *)
(*   app/nutrition_advisor.py build_comprehensive_prompt                   *)
(*   app/mistral_service.py  ask_mistral_async, ask_mistral,               *)
(*                           get_fallback_response, get_async_session,     *)
(*                           close_async_session, test_mistral_connection  *)
(*   app/main.py             predict, parse_mistral_response               *)
(*                                                                         *)
(* Python values are tagged records [ty, v].  A Python str is a sequence   *)
(* of chunks: one-character chunks for whitespace, JSON punctuation, the   *)
(* quote and the bullet markers, and word chunks for everything else.      *)
(* Confidences are integer hundredths (0.15 is 15).                        *)
(***************************************************************************)
EXTENDS Integers, Sequences, FiniteSets, TLC

VARIABLES
    MISTRAL_KEY,     \* mistral_service.MISTRAL_KEY is set (TRUE) or missing
    async_session,   \* mistral_service.async_session: NoSession or a session
    uploads,         \* files present under UPLOAD_DIR, named by request
    requests,        \* per request: position in predict, inputs, response
    running,         \* the request whose handler occupies the event loop, 0 if none
    client_call,     \* the direct calls of the Advice Client and their outcomes
    image_path,      \* detector under test: the image handed to it
    detection_result,\* detector under test: what it returned
    response_text,   \* parser under test: the value handed to it
    analysis         \* parser under test: what it returned or raised

vars == <<MISTRAL_KEY, async_session, uploads, requests, running, client_call,
          image_path, detection_result, response_text, analysis>>

pipeline_vars == <<MISTRAL_KEY, async_session, uploads, requests, running, client_call>>
detector_vars == <<image_path, detection_result>>
parser_vars == <<response_text, analysis>>

(***************************************************************************)
(* Python values                                                           *)
(***************************************************************************)
Str(s) == [ty |-> "str", v |-> s]
List(xs) == [ty |-> "list", v |-> xs]
Dict(items) == [ty |-> "dict", v |-> items]
None == [ty |-> "None", v |-> <<>>]
Num(w) == [ty |-> "num", v |-> <<w>>]

\* One word chunk as a str.
W(w) == Str(<<w>>)

Item(k, val) == [k |-> k, val |-> val]

HasKey(d, k) == d.ty = "dict" /\ \E i \in 1..Len(d.v) : d.v[i].k = k

Get(d, k) == d.v[CHOOSE i \in 1..Len(d.v) : d.v[i].k = k].val

\* dict[k] = val: an existing key keeps its place, a new key goes last.
Put(items, k, val) ==
    IF \E i \in 1..Len(items) : items[i].k = k
    THEN [i \in 1..Len(items) |-> IF items[i].k = k THEN Item(k, val) ELSE items[i]]
    ELSE Append(items, Item(k, val))

Quote == "\""
\* What str.strip() removes; the form feed stands for the characters that Python
\* takes for whitespace and JSON does not.
Whitespace == {" ", "\n", "\t", "\f"}
\* What the JSON decoder skips between tokens.
JsonWhitespace == {" ", "\n", "\t"}
\* The bullet markers of the line scan: '-' and U+2022.
Dash == "-"
Bullet == "U+2022"
\* The three backquotes of a Markdown code fence.
Fence == "FENCE"

RECURSIVE LStrip(_)
LStrip(s) == IF s # <<>> /\ Head(s) \in Whitespace THEN LStrip(Tail(s)) ELSE s

RECURSIVE RStrip(_)
RStrip(s) ==
    IF s # <<>> /\ s[Len(s)] \in Whitespace THEN RStrip(SubSeq(s, 1, Len(s) - 1)) ELSE s

\* str.strip()
Strip(s) == RStrip(LStrip(s))

\* str.startswith(c) for a one-character c
StartsWith(s, c) == s # <<>> /\ Head(s) = c

\* str.split('\n'): the pieces between the newlines, empty pieces included.
Split(s) ==
    LET newlines == {i \in 1..Len(s) : s[i] = "\n"}
        n == Cardinality(newlines)
        \* the k-th newline; 0 and Len(s) + 1 fence the first and the last piece
        cut(k) == IF k = 0 THEN 0
                  ELSE IF k = n + 1 THEN Len(s) + 1
                  ELSE CHOOSE i \in newlines : Cardinality({j \in newlines : j < i}) = k - 1
    IN  [k \in 1..(n + 1) |-> SubSeq(s, cut(k - 1) + 1, cut(k) - 1)]

(***************************************************************************)
(* json.dumps and json.loads on chunk sequences                            *)
(***************************************************************************)
\* json.dumps with the default separators ", " and ": ".
RECURSIVE Dumps(_), DumpsElements(_), DumpsItems(_)
Dumps(val) ==
    CASE val.ty = "str" -> <<Quote>> \o val.v \o <<Quote>>
      [] val.ty = "list" -> <<"[">> \o DumpsElements(val.v) \o <<"]">>
      [] val.ty = "dict" -> <<"{">> \o DumpsItems(val.v) \o <<"}">>
      [] val.ty = "num" -> val.v
      [] OTHER -> <<"null">>

DumpsElements(xs) ==
    IF xs = <<>> THEN <<>>
    ELSE Dumps(Head(xs))
         \o (IF Len(xs) > 1 THEN <<",", " ">> \o DumpsElements(Tail(xs)) ELSE <<>>)

DumpsItems(items) ==
    IF items = <<>> THEN <<>>
    ELSE <<Quote>> \o Head(items).k \o <<Quote, ":", " ">> \o Dumps(Head(items).val)
         \o (IF Len(items) > 1 THEN <<",", " ">> \o DumpsItems(Tail(items)) ELSE <<>>)

\* The number literals the texts of the model use.
NumberChunks == {"1"}

DecodeError == [ok |-> FALSE, val |-> None, next |-> 0]
Decoded(val, next) == [ok |-> TRUE, val |-> val, next |-> next]

RECURSIVE SkipWs(_, _)
SkipWs(s, i) == IF i <= Len(s) /\ s[i] \in JsonWhitespace THEN SkipWs(s, i + 1) ELSE i

\* Index of the quote closing a string opened before j, 0 if there is none or a
\* raw control character comes first (the decoder is strict).
RECURSIVE ScanString(_, _)
ScanString(s, j) ==
    IF j > Len(s) THEN 0
    ELSE IF s[j] = Quote THEN j
    ELSE IF s[j] \in {"\n", "\t"} THEN 0
    ELSE ScanString(s, j + 1)

ParseString(s, i) ==
    LET j == ScanString(s, i + 1)
    IN  IF j = 0 THEN DecodeError ELSE Decoded(Str(SubSeq(s, i + 1, j - 1)), j + 1)

RECURSIVE ParseValue(_, _), ParseMembers(_, _, _), ParseElements(_, _, _)
ParseValue(s, i) ==
    IF i > Len(s) THEN DecodeError
    ELSE IF s[i] = "{" THEN
        LET j == SkipWs(s, i + 1)
        IN  IF j <= Len(s) /\ s[j] = "}" THEN Decoded(Dict(<<>>), j + 1)
            ELSE ParseMembers(s, j, <<>>)
    ELSE IF s[i] = "[" THEN
        LET j == SkipWs(s, i + 1)
        IN  IF j <= Len(s) /\ s[j] = "]" THEN Decoded(List(<<>>), j + 1)
            ELSE ParseElements(s, j, <<>>)
    ELSE IF s[i] = Quote THEN ParseString(s, i)
    ELSE IF s[i] = "null" THEN Decoded(None, i + 1)
    ELSE IF s[i] \in NumberChunks THEN Decoded(Num(s[i]), i + 1)
    ELSE DecodeError

\* s[i] starts a "key": value pair of an object whose earlier pairs are acc.
ParseMembers(s, i, acc) ==
    IF i > Len(s) \/ s[i] # Quote THEN DecodeError
    ELSE LET key == ParseString(s, i)
         IN  IF ~key.ok THEN DecodeError
             ELSE LET c == SkipWs(s, key.next)
                  IN  IF c > Len(s) \/ s[c] # ":" THEN DecodeError
                      ELSE LET val == ParseValue(s, SkipWs(s, c + 1))
                           IN  IF ~val.ok THEN DecodeError
                               ELSE LET items == Put(acc, key.val.v, val.val)
                                        e == SkipWs(s, val.next)
                                    IN  IF e > Len(s) THEN DecodeError
                                        ELSE IF s[e] = "}" THEN Decoded(Dict(items), e + 1)
                                        ELSE IF s[e] = ","
                                             THEN ParseMembers(s, SkipWs(s, e + 1), items)
                                        ELSE DecodeError

\* s[i] starts an element of an array whose earlier elements are acc.
ParseElements(s, i, acc) ==
    LET val == ParseValue(s, i)
    IN  IF ~val.ok THEN DecodeError
        ELSE LET xs == Append(acc, val.val)
                 e == SkipWs(s, val.next)
             IN  IF e > Len(s) THEN DecodeError
                 ELSE IF s[e] = "]" THEN Decoded(List(xs), e + 1)
                 ELSE IF s[e] = "," THEN ParseElements(s, SkipWs(s, e + 1), xs)
                 ELSE DecodeError

\* json.loads: one value, whitespace allowed around it, nothing after it.
Loads(s) ==
    LET val == ParseValue(s, SkipWs(s, 1))
    IN  IF val.ok /\ SkipWs(s, val.next) = Len(s) + 1 THEN val ELSE DecodeError

(***************************************************************************)
(* app/mistral_service.py: the canned fallback                             *)
(***************************************************************************)
NutritionKeys == <<"protein", "carbs", "fat", "fiber", "vitamins">>

\* A nutrition mapping with every nutrient at the same level.
NutritionOf(level) ==
    Dict([i \in 1..Len(NutritionKeys) |-> Item(<<NutritionKeys[i]>>, W(level))])

FallbackRecommendations ==
    List(<<W("Konsumsi makanan seimbang"), W("Perbanyak buah dan sayuran"),
           W("Minum air yang cukup")>>)

FallbackPayload ==
    Dict(<<Item(<<"food_type">>, W("Makanan Terdeteksi")),
           Item(<<"components">>, List(<<W("Analisis cepat")>>)),
           Item(<<"nutrition">>, NutritionOf("Cukup")),
           Item(<<"deficiencies">>, List(<<W("Perlu analisis lebih detail")>>)),
           Item(<<"recommendations">>, FallbackRecommendations)>>)

\* get_fallback_response with the "deficiencies" entry forgotten.
get_fallback_response_partial ==
    Str(Dumps(Dict(<<FallbackPayload.v[1], FallbackPayload.v[2], FallbackPayload.v[3],
                     FallbackPayload.v[5]>>)))

get_fallback_response == Str(Dumps(FallbackPayload))

(***************************************************************************)
(* app/main.py: parse_mistral_response                                     *)
(***************************************************************************)
\* str.lower() of one chunk; chunks without capitals are their own lower case.
LowerChunk(c) ==
    CASE c = "Komponen:" -> "komponen:"
      [] c = "Bahan utama:" -> "bahan utama:"
      [] c = "Kandungan Gizi:" -> "kandungan gizi:"
      [] c = "NUTRISI" -> "nutrisi"
      [] c = "Kekurangan:" -> "kekurangan:"
      [] c = "Kekurangan gizi" -> "kekurangan gizi"
      [] c = "Rekomendasi:" -> "rekomendasi:"
      [] c = "Saran:" -> "saran:"
      [] c = "Ikuti saran dokter" -> "ikuti saran dokter"
      [] c = "Eat more vegetables" -> "eat more vegetables"
      [] c = "Nasi" -> "nasi"
      [] OTHER -> c

Lower(s) == [i \in 1..Len(s) |-> LowerChunk(s[i])]

\* The section keywords that occur in a lower-case chunk.
KeywordsIn(c) ==
    CASE c = "komponen:" -> {"komponen"}
      [] c = "bahan utama:" -> {"bahan"}
      [] c = "kandungan gizi:" -> {"gizi"}
      [] c = "nutrisi" -> {"nutrisi"}
      [] c = "kekurangan:" -> {"kekurangan"}
      [] c = "kekurangan gizi" -> {"kekurangan", "gizi"}
      [] c = "rekomendasi:" -> {"rekomendasi"}
      [] c = "saran:" -> {"saran"}
      [] c = "ikuti saran dokter" -> {"saran"}
      [] OTHER -> {}

\* keyword in s
Contains(s, keyword) == \E i \in 1..Len(s) : keyword \in KeywordsIn(s[i])

\* The section a non-blank stripped line switches to, "" when it is no header.
SectionOf(line) ==
    LET low == Lower(line)
    IN  IF Contains(low, "komponen") \/ Contains(low, "bahan") THEN "components"
        ELSE IF Contains(low, "gizi") \/ Contains(low, "nutrisi") THEN "nutrition"
        ELSE IF Contains(low, "kekurangan") THEN "deficiencies"
        ELSE IF Contains(low, "rekomendasi") \/ Contains(low, "saran")
             THEN "recommendations"
        ELSE ""

ListSections == {"components", "deficiencies", "recommendations"}

\* The loop over the lines: st holds current_section (None is "") and the
\* three lists of analysis.
RECURSIVE ScanLines(_, _)
ScanLines(lines, st) ==
    IF lines = <<>> THEN st
    ELSE LET line == Strip(Head(lines))
             rest == Tail(lines)
         IN  IF line = <<>> THEN ScanLines(rest, st)
             ELSE IF SectionOf(line) # ""
                  THEN ScanLines(rest, [st EXCEPT !.current_section = SectionOf(line)])
             ELSE IF StartsWith(line, Dash) \/ StartsWith(line, Bullet)
                  THEN LET item == Strip(Tail(line))
                       IN  IF st.current_section \in ListSections /\ item # <<>>
                           THEN ScanLines(rest,
                                    [st EXCEPT ![st.current_section] = Append(@, Str(item))])
                           ELSE ScanLines(rest, st)
             ELSE ScanLines(rest, st)

ScanStart ==
    [current_section |-> "", components |-> <<>>, deficiencies |-> <<>>,
     recommendations |-> <<>>]

DefaultRecommendations ==
    <<W("Konsultasi dengan ahli gizi untuk analisis lengkap"),
      W("Perhatikan porsi dan variasi makanan"),
      W("Minum air yang cukup sepanjang hari")>>

\* The analysis dict of the line scan, with the default recommendations when
\* the scan found none.
HeuristicAnalysis(text) ==
    LET st == ScanLines(Split(text), ScanStart)
    IN  Dict(<<Item(<<"food_type">>, W("Makanan Terdeteksi")),
               Item(<<"components">>, List(st.components)),
               Item(<<"nutrition">>, NutritionOf("Tidak Diketahui")),
               Item(<<"deficiencies">>, List(st.deficiencies)),
               Item(<<"recommendations">>,
                    List(IF st.recommendations = <<>> THEN DefaultRecommendations
                         ELSE st.recommendations))>>)

Returned(val) == [raised |-> FALSE, val |-> val]
Raised(exc) == [raised |-> TRUE, val |-> W(exc)]

\* parse_mistral_response with the strip() before startswith('{') left out.
parse_mistral_response_unstripped(text) ==
    IF text.ty # "str" THEN Raised("AttributeError")
    ELSE LET decoded == IF StartsWith(text.v, "{") THEN Loads(text.v) ELSE DecodeError
         IN  IF decoded.ok THEN Returned(decoded.val)
             ELSE Returned(HeuristicAnalysis(text.v))

\* The strict decode is tried inside try/except; the line scan is outside it,
\* so a value without split() raises from there.
parse_mistral_response(text) ==
    IF text.ty # "str" THEN Raised("AttributeError")
    ELSE LET decoded == IF StartsWith(Strip(text.v), "{") THEN Loads(text.v)
                        ELSE DecodeError
         IN  IF decoded.ok THEN Returned(decoded.val)
             ELSE Returned(HeuristicAnalysis(text.v))

(***************************************************************************)
(* app/yolo_detector.py: detect_food_optimized                             *)
(***************************************************************************)
\* max_det=8 of the inference call.
MaxDet == 8
\* The confidence below which the loop skips a box (0.15).
PostFilterConf == 15

\* model(image, conf=0.2, iou=0.4, imgsz=320, max_det=8): at most max_det boxes
\* of the candidates come back.
Inference(image) ==
    SubSeq(image.boxes, 1, IF Len(image.boxes) < MaxDet THEN Len(image.boxes) ELSE MaxDet)

\* ScanBox with the label recorded before the confidence check: a variant the
\* label invariant must reject.
ScanBoxLabelFirst(box, acc) ==
    IF box.confidence < PostFilterConf
    THEN [acc EXCEPT !.detected_foods = @ \cup {box.label}]
    ELSE [detections |-> Append(acc.detections, box),
          detected_foods |-> acc.detected_foods \cup {box.label}]

\* The body of the loop over the boxes.
ScanBox(box, acc) ==
    IF box.confidence < PostFilterConf THEN acc
    ELSE [detections |-> Append(acc.detections, box),
          detected_foods |-> acc.detected_foods \cup {box.label}]

RECURSIVE ScanBoxes(_, _)
ScanBoxes(boxes, acc) ==
    IF boxes = <<>> THEN acc ELSE ScanBoxes(Tail(boxes), ScanBox(Head(boxes), acc))

\* InsertByConfidence as an ascending sort followed by reverse() would do it:
\* d goes before the entries of its own confidence, so ties come out reversed.
RECURSIVE InsertBeforeTies(_, _)
InsertBeforeTies(d, sorted) ==
    IF sorted = <<>> THEN <<d>>
    ELSE IF Head(sorted).confidence > d.confidence
         THEN <<Head(sorted)>> \o InsertBeforeTies(d, Tail(sorted))
    ELSE <<d>> \o sorted

\* Where list.sort(key=confidence, reverse=True) puts d among the already
\* sorted earlier entries: after every entry that is not smaller (the sort is
\* stable, also when reversed).
RECURSIVE InsertByConfidence(_, _)
InsertByConfidence(d, sorted) ==
    IF sorted = <<>> THEN <<d>>
    ELSE IF Head(sorted).confidence >= d.confidence
         THEN <<Head(sorted)>> \o InsertByConfidence(d, Tail(sorted))
    ELSE <<d>> \o sorted

RECURSIVE SortByConfidence(_)
SortByConfidence(ds) ==
    IF ds = <<>> THEN <<>>
    ELSE InsertByConfidence(ds[Len(ds)], SortByConfidence(SubSeq(ds, 1, Len(ds) - 1)))

\* list(a_set): every order of the elements is possible.
ListsOf(S) ==
    {l \in [1..Cardinality(S) -> S] : \A i, j \in 1..Cardinality(S) : i # j => l[i] # l[j]}

empty_result(error_msg) ==
    [detected_foods |-> <<>>, detections |-> <<>>, total_detections |-> 0,
     error |-> <<error_msg>>]

\* The results detect_food_optimized can return for an image: cv2.imread gives
\* None for a file it cannot decode; anything raised inside the try (model
\* load, inference) ends in empty_result as well.
detect_food_optimized(image) ==
    IF ~image.readable THEN {empty_result("Cannot read image")}
    ELSE IF image.raises THEN {empty_result("exception")}
    ELSE LET acc == ScanBoxes(Inference(image), [detections |-> <<>>, detected_foods |-> {}])
             detections == SortByConfidence(acc.detections)
         IN  {[detected_foods |-> foods, detections |-> detections,
               total_detections |-> Len(detections), error |-> <<>>] :
                  foods \in ListsOf(acc.detected_foods)}

detect_food_with_details(image) == detect_food_optimized(image)

(***************************************************************************)
(* app/nutrition_advisor.py: build_comprehensive_prompt                    *)
(***************************************************************************)
\* The parts of the prompt that depend on the input: the food list (a fixed
\* placeholder when it is empty) and the details of the first five detections.
build_comprehensive_prompt(food_list, detections) ==
    [foods |-> IF food_list = <<>> THEN <<"Tidak ada makanan terdeteksi">> ELSE food_list,
     details |-> [i \in 1..(IF Len(detections) < 5 THEN Len(detections) ELSE 5) |->
                     <<detections[i].label, detections[i].confidence>>]]

(***************************************************************************)
(* app/mistral_service.py: the Advice Client                               *)
(***************************************************************************)
\* async_session = None
NoSession == [id |-> 0, closed |-> FALSE]
\* aiohttp.ClientSession(): a new, open session object.
ClientSession == [id |-> 1, closed |-> FALSE]

get_async_session(session) == IF session = NoSession THEN ClientSession ELSE session

\* close_async_session: the session object is closed and the global keeps
\* naming it.
close_async_session(session) ==
    IF session # NoSession THEN [session EXCEPT !.closed = TRUE] ELSE session

\* What session.post and response.json() do for one call:
\*   timeout        asyncio.TimeoutError after 15 s
\*   network_error  aiohttp.ClientError from session.post
\*   non_2xx        an error body without "choices": KeyError
\*   undecodable    response.json() raises
\*   ok             choices[0].message.content is content (a str, or None)
LlmFailures == {"timeout", "network_error", "non_2xx", "undecodable"}

\* ask_mistral_async: the value returned or the exception raised,
\* async_session afterwards, and whether a request went out.  session.post on
\* a closed session raises RuntimeError before anything is sent; the
\* except Exception turns it into the fallback.
ask_mistral_async(key, session, llm) ==
    IF ~key
    THEN [out |-> Returned(get_fallback_response), async_session |-> session,
          posted |-> FALSE]
    ELSE LET used == get_async_session(session)
         IN  [out |-> IF ~used.closed /\ llm.kind = "ok" THEN Returned(llm.content)
                      ELSE Returned(get_fallback_response),
              async_session |-> used,
              posted |-> ~used.closed]

\* ask_mistral: asyncio.get_event_loop() gives the running loop when called
\* from a coroutine, and run_until_complete on a running loop raises
\* RuntimeError before the coroutine is started.
ask_mistral(key, loop_running, session, llm) ==
    IF ~key
    THEN [out |-> Returned(get_fallback_response), async_session |-> session,
          posted |-> FALSE]
    ELSE IF loop_running
         THEN [out |-> Raised("RuntimeError"), async_session |-> session, posted |-> FALSE]
    ELSE ask_mistral_async(key, session, llm)

\* response.raise_for_status() raises for the statuses 400 to 599 and for no
\* other.
RaisesForStatus(status) == 400 <= status /\ status < 600

\* test_mistral_connection with the check of MISTRAL_KEY left out: the probe
\* is sent without a credential.
test_mistral_connection_unguarded(key, probe) ==
    [status |-> IF probe.kind = "response" /\ ~RaisesForStatus(probe.status)
                THEN "connected" ELSE "error",
     posted |-> TRUE]

\* test_mistral_connection: the status returned and whether a request went
\* out.  probe is what requests.post does: it raises (timeout,
\* network_error) or returns a response with a status.
test_mistral_connection(key, probe) ==
    IF ~key THEN [status |-> "disabled", posted |-> FALSE]
    ELSE [status |-> IF probe.kind = "response" /\ ~RaisesForStatus(probe.status)
                     THEN "connected" ELSE "error",
          posted |-> TRUE]

(***************************************************************************)
(* Inputs                                                                  *)
(***************************************************************************)
\* Candidate boxes an image may hold beyond max_det.
MoreCandidates == 1
\* Lines of a free-text answer.
MaxLines == 3
\* Concurrent requests.
MaxRequests == 2
\* Direct calls of the Advice Client that are kept.
MaxCalls == 2

Requests == 1..MaxRequests

\* Label, confidence and class of a box; two boxes of one kind tie.
BoxKinds ==
    {[label |-> "nasi", confidence |-> 90, class_id |-> 0],
     [label |-> "tempe", confidence |-> 30, class_id |-> 1],
     [label |-> "tempe", confidence |-> 10, class_id |-> 1]}

\* The boxes of an image in the order the model reports them; bbox stands for
\* the coordinates and tells the boxes of one image apart.
Boxes(kinds) ==
    [i \in 1..Len(kinds) |-> [label |-> kinds[i].label, confidence |-> kinds[i].confidence,
                              class_id |-> kinds[i].class_id, bbox |-> i]]

Unreadable == [readable |-> FALSE, raises |-> FALSE, boxes |-> <<>>]
Failing == [readable |-> TRUE, raises |-> TRUE, boxes |-> <<>>]
Readable(boxes) == [readable |-> TRUE, raises |-> FALSE, boxes |-> boxes]

\* The uploads of the pipeline: a file that is no image, an image the model
\* fails on, a plate without food and a plate with two foods.
PipelineImages ==
    {Unreadable, Failing, Readable(<<>>),
     Readable(Boxes(<<[label |-> "tempe", confidence |-> 30, class_id |-> 1],
                      [label |-> "nasi", confidence |-> 90, class_id |-> 0]>>))}

\* Objects that match the nutrition schema.
SchemaObjects ==
    {Dict(<<Item(<<"food_type">>, W("Makanan berat")),
            Item(<<"components">>, List(components)),
            Item(<<"nutrition">>, NutritionOf(level)),
            Item(<<"deficiencies">>, List(deficiencies)),
            Item(<<"recommendations">>, List(recommendations))>>) :
        components \in {<<>>, <<W("Nasi")>>, <<W("Nasi"), W("Tempe")>>},
        level \in {"tinggi", "rendah"},
        deficiencies \in {<<>>, <<W("Serat")>>},
        recommendations \in {<<>>, <<W("Eat more vegetables")>>,
                             <<W("Eat more vegetables"), W("Ikuti saran dokter")>>}}
    \cup {FallbackPayload}

\* Objects that decode and miss part of the schema.
PartialObjects ==
    {Dict(<<>>),
     Dict(<<Item(<<"food_type">>, W("Makanan berat"))>>),
     Dict(<<Item(<<"recommendations">>, None)>>),
     Dict(<<Item(<<"food_type">>, W("Makanan berat")), Item(<<"calories">>, Num("1"))>>)}

\* Whitespace the JSON decoder accepts around a value.
JsonWraps == {<<<<>>, <<>>>>, <<<<"\n", " ">>, <<>>>>, <<<<" ">>, <<"\n">>>>, <<<<"\t">>, <<" ", "\n">>>>}

Wrapped(val, wrap) == wrap[1] \o Dumps(val) \o wrap[2]

\* The well-formed texts of the objects that match the schema.
SchemaTexts == {Str(Wrapped(val, wrap)) : val \in SchemaObjects, wrap \in JsonWraps}

JsonTexts == {Wrapped(val, wrap) : val \in SchemaObjects \cup PartialObjects, wrap \in JsonWraps}

\* Texts that open like an object and do not decode: an answer cut off by
\* max_tokens, an object followed by prose, a form feed before the object; and
\* an object inside a Markdown fence.
BrokenTexts ==
    {SubSeq(Dumps(FallbackPayload), 1, n) : n \in {1, 2, 5, 20}}
    \cup {Dumps(val) \o <<"\n", "Saran:", "\n", Dash, " ", "Nasi">> : val \in PartialObjects}
    \cup {<<"\f">> \o Dumps(FallbackPayload)}
    \cup {<<Fence, "json", "\n">> \o Dumps(val) \o <<"\n", Fence>> : val \in PartialObjects}

LineKinds ==
    {<<>>, <<"Komponen:">>, <<"Bahan utama:">>, <<"Kandungan Gizi:">>, <<"NUTRISI">>,
     <<"Kekurangan:">>, <<"Kekurangan gizi">>, <<"Rekomendasi:">>, <<"Saran:">>,
     <<Dash, " ", "Eat more vegetables">>, <<" ", Bullet, "Nasi", " ">>,
     <<Dash, " ", "Ikuti saran dokter">>, <<Dash, " ">>, <<"Nasi">>}

RECURSIVE JoinLines(_)
JoinLines(lines) ==
    IF lines = <<>> THEN <<>>
    ELSE IF Len(lines) = 1 THEN Head(lines)
    ELSE Head(lines) \o <<"\n">> \o JoinLines(Tail(lines))

LineTexts == UNION {{JoinLines(lines) : lines \in [1..n -> LineKinds]} : n \in 0..MaxLines}

\* What the Advice Client can hand to the parser: a str, or None when the
\* answer carries no content.
ResponseTexts == {Str(t) : t \in JsonTexts \cup BrokenTexts \cup LineTexts} \cup {None}

\* What the endpoint can do for one call.
LlmOutcomes ==
    {[kind |-> k, content |-> None] : k \in LlmFailures}
    \cup {[kind |-> "ok", content |-> c] :
            c \in {get_fallback_response, Str(Dumps(Dict(<<>>))), None,
                   Str(<<"Saran:", "\n", Dash, " ", "Eat more vegetables">>)}}

\* What requests.post does for the probe: an exception, or the final response
\* (a 3xx is final when it names no location to follow).
ProbeOutcomes ==
    {[kind |-> k, status |-> 0] : k \in {"timeout", "network_error"}}
    \cup {[kind |-> "response", status |-> n] : n \in {200, 204, 304, 401, 500}}

\* What the endpoint does while a request of the pipeline is served.
PipelineLlmOutcomes ==
    {llm \in LlmOutcomes :
        \/ llm.kind \in {"timeout", "network_error"}
        \/ llm.kind = "ok" /\ llm.content \in {Str(Dumps(Dict(<<>>))), None}}

(***************************************************************************)
(* State                                                                   *)
(***************************************************************************)
NoRequest ==
    [pc |-> "idle", filename |-> FALSE, image |-> Unreadable,
     llm |-> [kind |-> "none", content |-> None], detection |-> <<>>, prompt |-> <<>>,
     ask_calls |-> 0, advice |-> <<>>, response |-> <<>>]

PipelineIdle ==
    /\ MISTRAL_KEY = FALSE
    /\ async_session = NoSession
    /\ uploads = {}
    /\ requests = [r \in Requests |-> NoRequest]
    /\ running = 0
    /\ client_call = <<>>

DetectorIdle == image_path = Unreadable /\ detection_result = <<>>

ParserIdle == response_text = None /\ analysis = <<>>

(***************************************************************************)
(* app/main.py: predict, in the steps between its blocking calls.  The     *)
(* handler is a coroutine without an await: once it runs, the event loop   *)
(* runs nothing else until it returns or raises.                           *)
(***************************************************************************)
\* except Exception: raise HTTPException(status_code=500, ...)
PredictionFailed(e) ==
    [status |-> 500, success |-> FALSE, detected_foods |-> <<>>, detections |-> <<>>,
     nutrition_analysis |-> None, analysis_source |-> "",
     detail |-> <<"Prediction failed: ", e>>]

PredictionResult(detection, advice_data) ==
    [status |-> 200, success |-> TRUE, detected_foods |-> detection.detected_foods,
     detections |-> detection.detections, nutrition_analysis |-> advice_data,
     analysis_source |-> "Mistral AI", detail |-> <<>>]

\* A client sends an upload; the request waits for the event loop.
Receive(r) ==
    /\ requests[r].pc = "idle"
    /\ \E filename \in BOOLEAN, image \in PipelineImages :
          requests' = [requests EXCEPT ![r] =
                          [@ EXCEPT !.pc = "received", !.filename = filename, !.image = image]]
    /\ UNCHANGED <<MISTRAL_KEY, async_session, uploads, running, client_call>>
    /\ UNCHANGED <<detector_vars, parser_vars>>

\* The filename check and the copy of the upload into UPLOAD_DIR.  The
\* HTTPException(400) is raised inside the try and caught by its
\* except Exception.
Ingest(r) ==
    /\ requests[r].pc = "received"
    /\ running = 0
    /\ \/ /\ ~requests[r].filename
          /\ requests' = [requests EXCEPT ![r] =
                            [@ EXCEPT !.pc = "done",
                                      !.response = <<PredictionFailed("400: No file provided")>>]]
          /\ UNCHANGED <<uploads, running>>
       \/ /\ requests[r].filename
          /\ uploads' = uploads \cup {r}
          /\ running' = r
          /\ requests' = [requests EXCEPT ![r] = [@ EXCEPT !.pc = "saved"]]
    /\ UNCHANGED <<MISTRAL_KEY, async_session, client_call>>
    /\ UNCHANGED <<detector_vars, parser_vars>>

\* detection_result = detect_food_with_details(save_path)
Detect(r) ==
    /\ requests[r].pc = "saved"
    /\ \E result \in detect_food_with_details(requests[r].image) :
          requests' = [requests EXCEPT ![r] =
                          [@ EXCEPT !.pc = "detected", !.detection = <<result>>]]
    /\ UNCHANGED <<MISTRAL_KEY, async_session, uploads, running, client_call>>
    /\ UNCHANGED <<detector_vars, parser_vars>>

\* prompt = build_comprehensive_prompt(...); nutrition_advice = ask_mistral(prompt),
\* called while the event loop runs the handler.
Advise(r) ==
    /\ requests[r].pc = "detected"
    /\ \E llm \in PipelineLlmOutcomes :
          LET detection == requests[r].detection[1]
              prompt == build_comprehensive_prompt(detection.detected_foods,
                                                   detection.detections)
              call == ask_mistral(MISTRAL_KEY, TRUE, async_session, llm)
              asked == [requests[r] EXCEPT !.llm = llm, !.prompt = <<prompt>>,
                                           !.ask_calls = @ + 1, !.advice = <<call.out>>]
          IN  /\ async_session' = call.async_session
              /\ \/ /\ call.out.raised
                    /\ requests' = [requests EXCEPT ![r] =
                                      [asked EXCEPT !.pc = "done",
                                          !.response = <<PredictionFailed(call.out.val.v[1])>>]]
                    /\ running' = 0
                 \/ /\ ~call.out.raised
                    /\ requests' = [requests EXCEPT ![r] = [asked EXCEPT !.pc = "advised"]]
                    /\ running' = running
    /\ UNCHANGED <<MISTRAL_KEY, uploads, client_call>>
    /\ UNCHANGED <<detector_vars, parser_vars>>

\* advice_data = parse_mistral_response(nutrition_advice), os.remove(save_path)
\* and the response.
Respond(r) ==
    /\ requests[r].pc = "advised"
    /\ LET parsed == parse_mistral_response(requests[r].advice[1].val)
       IN  \/ /\ parsed.raised
              /\ requests' = [requests EXCEPT ![r] =
                                [@ EXCEPT !.pc = "done",
                                          !.response = <<PredictionFailed(parsed.val.v[1])>>]]
              /\ UNCHANGED uploads
           \/ /\ ~parsed.raised
              /\ uploads' = uploads \ {r}
              /\ requests' = [requests EXCEPT ![r] =
                                [@ EXCEPT !.pc = "done",
                                          !.response =
                                              <<PredictionResult(requests[r].detection[1], parsed.val)>>]]
    /\ running' = 0
    /\ UNCHANGED <<MISTRAL_KEY, async_session, client_call>>
    /\ UNCHANGED <<detector_vars, parser_vars>>

Init ==
    /\ MISTRAL_KEY \in BOOLEAN
    /\ async_session = NoSession
    /\ uploads = {}
    /\ requests = [r \in Requests |-> NoRequest]
    /\ running = 0
    /\ client_call = <<>>
    /\ DetectorIdle
    /\ ParserIdle

Next == \E r \in Requests : Receive(r) \/ Ingest(r) \/ Detect(r) \/ Advise(r) \/ Respond(r)

Spec == Init /\ [][Next]_vars

(***************************************************************************)
(* The Advice Client called on its own                                     *)
(***************************************************************************)
\* An entry of client_call: the function called, what the endpoint did, what
\* came back, and whether the call created the session or sent a request.
ClientCall(variant, llm, call) ==
    [variant |-> variant, llm |-> llm, out |-> call.out,
     created |-> call.async_session # async_session, posted |-> call.posted]

\* await ask_mistral_async(prompt).  The function reads and sets async_session
\* before its first await, so the step is atomic for the handle.
AskMistralAsync ==
    /\ Len(client_call) < MaxCalls
    /\ \E llm \in LlmOutcomes :
          LET call == ask_mistral_async(MISTRAL_KEY, async_session, llm)
          IN  /\ async_session' = call.async_session
              /\ client_call' = Append(client_call, ClientCall("ask_mistral_async", llm, call))
    /\ UNCHANGED <<MISTRAL_KEY, uploads, requests, running>>
    /\ UNCHANGED <<detector_vars, parser_vars>>

\* ask_mistral(prompt) from code that runs outside any event loop
AskMistral ==
    /\ Len(client_call) < MaxCalls
    /\ \E llm \in LlmOutcomes :
          LET call == ask_mistral(MISTRAL_KEY, FALSE, async_session, llm)
          IN  /\ async_session' = call.async_session
              /\ client_call' = Append(client_call, ClientCall("ask_mistral", llm, call))
    /\ UNCHANGED <<MISTRAL_KEY, uploads, requests, running>>
    /\ UNCHANGED <<detector_vars, parser_vars>>

\* get_async_session()
GetAsyncSession ==
    /\ async_session' = get_async_session(async_session)
    /\ UNCHANGED <<MISTRAL_KEY, uploads, requests, running, client_call>>
    /\ UNCHANGED <<detector_vars, parser_vars>>

\* await close_async_session()
CloseAsyncSession ==
    /\ async_session' = close_async_session(async_session)
    /\ UNCHANGED <<MISTRAL_KEY, uploads, requests, running, client_call>>
    /\ UNCHANGED <<detector_vars, parser_vars>>

\* test_mistral_connection()
TestMistralConnection ==
    /\ Len(client_call) < MaxCalls
    /\ \E probe \in ProbeOutcomes :
          LET result == test_mistral_connection(MISTRAL_KEY, probe)
          IN  client_call' = Append(client_call,
                  [variant |-> "test_mistral_connection", llm |-> probe,
                   out |-> Returned(W(result.status)), created |-> FALSE,
                   posted |-> result.posted])
    /\ UNCHANGED <<MISTRAL_KEY, async_session, uploads, requests, running>>
    /\ UNCHANGED <<detector_vars, parser_vars>>

NextClient ==
    \/ AskMistralAsync
    \/ AskMistral
    \/ GetAsyncSession
    \/ CloseAsyncSession
    \/ TestMistralConnection

SpecClient == Init /\ [][NextClient]_vars

(***************************************************************************)
(* The detector on its own                                                 *)
(***************************************************************************)
InitDetect ==
    /\ PipelineIdle
    /\ \/ image_path \in {Unreadable, Failing}
       \/ \E len \in 0..(MaxDet + MoreCandidates) :
             \E kinds \in [1..len -> BoxKinds] : image_path = Readable(Boxes(kinds))
    /\ detection_result = <<>>
    /\ ParserIdle

DetectFood ==
    /\ detection_result = <<>>
    /\ \E result \in detect_food_with_details(image_path) : detection_result' = <<result>>
    /\ UNCHANGED <<image_path, pipeline_vars, parser_vars>>

NextDetect == DetectFood

SpecDetect == InitDetect /\ [][NextDetect]_vars

(***************************************************************************)
(* The parser on its own                                                   *)
(***************************************************************************)
InitParse ==
    /\ PipelineIdle
    /\ DetectorIdle
    /\ response_text \in ResponseTexts
    /\ analysis = <<>>

ParseResponse ==
    /\ analysis = <<>>
    /\ analysis' = <<parse_mistral_response(response_text)>>
    /\ UNCHANGED <<response_text, pipeline_vars, detector_vars>>

NextParse == ParseResponse

SpecParse == InitParse /\ [][NextParse]_vars

(***************************************************************************)
(* Properties                                                              *)
(***************************************************************************)
AnalysisFields == {<<"food_type">>, <<"components">>, <<"nutrition">>, <<"deficiencies">>,
                   <<"recommendations">>}

Done(r) == requests[r].pc = "done" /\ requests[r].response # <<>>

Response(r) == requests[r].response[1]

\* C1: a request whose detection found no food is answered with
\* analysis_source "Fallback" and without any call of ask_mistral.
C1_NoFoodSkipsAdvice ==
    \A r \in Requests :
        (/\ Done(r)
         /\ Response(r).success
         /\ requests[r].detection[1].detected_foods = <<>>)
        => /\ Response(r).analysis_source = "Fallback"
           /\ requests[r].ask_calls = 0

\* A call that raised nothing and, when the remote call failed, returned the
\* canned fallback text.
AdviceFailsSoft(llm, out) ==
    /\ ~out.raised
    /\ llm.kind \in LlmFailures => out.val = get_fallback_response

\* C2: no call of the Advice Client raises, whichever variant is called and
\* also from the predict handler, and a failed remote call yields the canned
\* fallback text.
C2_AdviceClientFailsSoft ==
    /\ \A r \in Requests :
          requests[r].advice # <<>> => AdviceFailsSoft(requests[r].llm, requests[r].advice[1])
    /\ \A i \in 1..Len(client_call) :
          AdviceFailsSoft(client_call[i].llm, client_call[i].out)

\* C3: with a credential configured, a request during which the endpoint times
\* out still ends in a success response whose analysis_source is "Fallback" and
\* whose recommendations are those of the canned fallback.
C3_TimeoutGivesFallback ==
    \A r \in Requests :
        (Done(r) /\ MISTRAL_KEY /\ requests[r].llm.kind = "timeout")
        => /\ Response(r).status = 200
           /\ Response(r).success
           /\ Response(r).analysis_source = "Fallback"
           /\ Get(Response(r).nutrition_analysis, <<"recommendations">>)
                  = FallbackRecommendations

Parsed == analysis[1]

\* C4: for every input text the record returned by parse_mistral_response has
\* a recommendations list, and the list is not empty.
C4_RecommendationsNeverEmpty ==
    (analysis # <<>> /\ response_text.ty = "str" /\ ~Parsed.raised)
    => /\ HasKey(Parsed.val, <<"recommendations">>)
       /\ Get(Parsed.val, <<"recommendations">>).ty = "list"
       /\ Get(Parsed.val, <<"recommendations">>).v # <<>>

\* C5: parse_mistral_response never raises; a value it cannot decode or scan
\* gives the fully defaulted record.
C5_ParserNeverRaises ==
    analysis # <<>>
    => /\ ~Parsed.raised
       /\ response_text.ty # "str" => Parsed.val = HeuristicAnalysis(<<>>)

C7_ParserRoundTrip ==
    (analysis # <<>> /\ response_text \in SchemaTexts)
    => \A obj \in SchemaObjects, wrap \in JsonWraps :
          response_text = Str(Wrapped(obj, wrap)) => Parsed = Returned(obj)

\* The canned fallback text, with whitespace around it, parsed back into the
\* fallback payload.
C7_Witness ==
    /\ analysis = <<Returned(FallbackPayload)>>
    /\ response_text = Str(<<"\n", " ">> \o get_fallback_response.v)

Result == detection_result[1]

Labels(detections) == {detections[i].label : i \in 1..Len(detections)}

\* C8: detected_foods lists exactly the labels of detections, each once, in
\* every result of the detector, empty_result included.
C8_FoodsAreDetectionLabels ==
    detection_result # <<>>
    => /\ {Result.detected_foods[i] : i \in 1..Len(Result.detected_foods)}
              = Labels(Result.detections)
       /\ Len(Result.detected_foods) = Cardinality(Labels(Result.detections))

\* Two labels among several detections, from an image with a box of a third
\* confidence that the loop skipped.
C8_Witness ==
    /\ detection_result # <<>>
    /\ Len(Result.detected_foods) = 2
    /\ Len(Result.detections) > 2
    /\ \E i \in 1..Len(Inference(image_path)) :
          Inference(image_path)[i].confidence < PostFilterConf

\* C9: detections holds only boxes at or above the confidence floor, in
\* descending confidence with ties in the order the model reported them, and
\* never more than max_det of them.
C9_DetectionsFilteredSortedCapped ==
    detection_result # <<>>
    => LET d == Result.detections
       IN  /\ \A i \in 1..Len(d) : d[i].confidence >= PostFilterConf
           /\ \A i, j \in 1..Len(d) :
                 i < j => \/ d[i].confidence > d[j].confidence
                          \/ d[i].confidence = d[j].confidence /\ d[i].bbox < d[j].bbox
           /\ Len(d) <= MaxDet

\* More candidates than max_det, a skipped box, a tie and a box that the sort
\* moved forward.
C9_Witness ==
    /\ detection_result # <<>>
    /\ Len(image_path.boxes) > MaxDet
    /\ \E i \in 1..MaxDet : image_path.boxes[i].confidence < PostFilterConf
    /\ LET d == Result.detections
       IN  /\ Len(d) > 3
           /\ \E i \in 1..(Len(d) - 1) : d[i].confidence = d[i + 1].confidence
           /\ \E i \in 1..(Len(d) - 1) : d[i].bbox > d[i + 1].bbox

\* C10: a request whose upload cannot be decoded as an image is never answered
\* with a success payload and never reaches the prompt or the LLM call.
C10_UnreadableUploadAborts ==
    \A r \in Requests :
        (Done(r) /\ requests[r].filename /\ ~requests[r].image.readable)
        => /\ ~Response(r).success
           /\ requests[r].prompt = <<>>
           /\ requests[r].ask_calls = 0

\* The text takes the line scan: it is a str that the strict decode did not
\* return from.
HeuristicPath(text) ==
    text.ty = "str" /\ ~(StartsWith(Strip(text.v), "{") /\ Loads(text.v).ok)

\* current_section and the three lists after the first k lines of the text.
ScanAfter(text, k) == ScanLines(SubSeq(Split(text), 1, k), ScanStart)

\* Line k of the text, stripped, is a bullet line with a non-empty item.
BulletLine(text, k) ==
    LET line == Strip(Split(text)[k])
    IN  /\ line # <<>>
        /\ StartsWith(line, Dash) \/ StartsWith(line, Bullet)
        /\ Strip(Tail(line)) # <<>>

\* C11: in the line scan every bullet line met while the current section is
\* components, deficiencies or recommendations is appended, stripped of its
\* marker and of the whitespace around it, to the end of that section's list
\* and leaves the current section as it was, whatever the text of the item;
\* the lists of the returned record are those of the scan.
C11_BulletsAppendedToCurrentSection ==
    (analysis # <<>> /\ HeuristicPath(response_text))
    => /\ \A k \in 1..Len(Split(response_text.v)) :
             LET before == ScanAfter(response_text.v, k - 1)
                 after == ScanAfter(response_text.v, k)
                 section == before.current_section
             IN  (BulletLine(response_text.v, k) /\ section \in ListSections)
                 => /\ after.current_section = section
                    /\ after[section]
                          = Append(before[section],
                                   Str(Strip(Tail(Strip(Split(response_text.v)[k])))))
       /\ LET st == ScanAfter(response_text.v, Len(Split(response_text.v)))
          IN  /\ Get(Parsed.val, <<"components">>) = List(st.components)
              /\ Get(Parsed.val, <<"deficiencies">>) = List(st.deficiencies)

\* Request r is inside detect_food_with_details or inside ask_mistral: the
\* call has been entered and has not returned.
InBlockingCall(r) == requests[r].pc \in {"saved", "detected"}

\* Request r has arrived and its handler has not been started.
Waiting(r) == requests[r].pc = "received"

\* C12: while one request is inside its detection step or inside ask_mistral,
\* the event loop can still take a step for any other request that has
\* arrived.
C12_LoopStaysResponsive ==
    \A r1, r2 \in Requests :
        (r1 # r2 /\ InBlockingCall(r1) /\ Waiting(r2)) => ENABLED Ingest(r2)

\* C13: across every interleaving of get_async_session, ask_mistral_async and
\* close_async_session the shared session is created at most once and, once
\* set, is neither replaced nor changed.
C13_SessionSetOnceNeverMutated ==
    [][async_session # NoSession => async_session' = async_session]_vars

AskVariants == {"ask_mistral_async", "ask_mistral"}

\* Without a credential the call neither raised, nor sent a request, nor
\* created the session, and gave the fallback text or the status disabled.
DegradesWithoutKey(c) ==
    /\ ~c.out.raised
    /\ ~c.posted
    /\ ~c.created
    /\ c.variant \in AskVariants => c.out.val = get_fallback_response
    /\ c.variant = "test_mistral_connection" => c.out.val = W("disabled")

\* C14: without a credential no call of the Advice Client raises or contacts
\* the network: the ask variants return the fallback text without creating a
\* session, the probe returns disabled; with a credential the probe returns
\* connected exactly when its request came back with a 2xx status, and error
\* otherwise.
C14_ProbeConnectedIff2xx ==
    \A i \in 1..Len(client_call) :
        LET c == client_call[i]
        IN  /\ ~MISTRAL_KEY => DegradesWithoutKey(c)
            /\ (MISTRAL_KEY /\ c.variant = "test_mistral_connection")
               => /\ c.out.val \in {W("connected"), W("error")}
                  /\ c.out.val = W("connected")
                     <=> (/\ c.llm.kind = "response"
                          /\ 200 <= c.llm.status /\ c.llm.status < 300)

\* C14 as amended: the same, with the probe connected exactly when its request
\* came back with a status outside 400 to 599 (raise_for_status lets every
\* other status pass, a final 3xx included), and error otherwise.
C14_ProbeConnectedIffNoErrorStatus ==
    \A i \in 1..Len(client_call) :
        LET c == client_call[i]
        IN  /\ ~MISTRAL_KEY => DegradesWithoutKey(c)
            /\ (MISTRAL_KEY /\ c.variant = "test_mistral_connection")
               => /\ c.out.val \in {W("connected"), W("error")}
                  /\ c.out.val = W("connected")
                     <=> (/\ c.llm.kind = "response"
                          /\ c.llm.status < 400 \/ c.llm.status >= 600)

\* A credential: one probe that came back with 304 and was reported connected,
\* and one that came back with 401 and was reported error, both sent.
C14_Witness ==
    /\ MISTRAL_KEY
    /\ \E i, j \in 1..Len(client_call) :
          /\ client_call[i].variant = "test_mistral_connection"
          /\ client_call[i].llm = [kind |-> "response", status |-> 304]
          /\ client_call[i].out = Returned(W("connected"))
          /\ client_call[i].posted
          /\ client_call[j].variant = "test_mistral_connection"
          /\ client_call[j].llm = [kind |-> "response", status |-> 401]
          /\ client_call[j].out = Returned(W("error"))

\* C15: a request whose upload has no filename is answered with status 400
\* and detail "No file provided", and neither the detector nor ask_mistral is
\* run for it.
C15_MissingFilenameIs400 ==
    \A r \in Requests :
        (Done(r) /\ ~requests[r].filename)
        => /\ Response(r).status = 400
           /\ Response(r).detail = <<"No file provided">>
           /\ requests[r].detection = <<>>
           /\ requests[r].ask_calls = 0

\* C16: the file a request saved under the uploads directory is gone when the
\* request has finished, with a success response or with an error; once every
\* request has finished the directory holds no upload.
C16_UploadsRemovedWhenDone ==
    /\ \A r \in Requests : Done(r) => r \notin uploads
    /\ (\A r \in Requests : requests[r].pc \in {"idle", "done"}) => uploads = {}

=============================================================================
